---- MODULE Spec2Model ----
(***************************************************************************)
(* A model of src/proxy_validator.py (class ProxyValidator) together with  *)
(* the settings of src/config.py it reads.                                 *)
(*                                                                         *)
(* Python strings are sequences of one-character strings, so that the      *)
(* parsing done by detect_protocol and extract_host_port is computed       *)
(* character by character.  The network (connect, gethostbyname) is the    *)
(* environment: every call draws its outcome from the outcomes the socket  *)
(* module can produce.                                                     *)
(***************************************************************************)
EXTENDS Integers, Sequences, FiniteSets, TLC

VARIABLES
    stats,      \* self.stats
    results,    \* self.results
    pc,         \* where run_validation stands: idle, running, done, raised
    proxies,    \* the input list of the current run, as far as the loop has read it
    report,     \* what save_results has written to results.json
    last,       \* observation of the latest validate_proxy call
    calls,      \* history: number of validate_proxy calls made
    tcpPassed,  \* history: number of calls whose stage1_tcp_check returned True
    now,        \* wall clock, in seconds
    lastCheck,  \* history: per IP, when stage3_ip_reputation was last called (-1: never)
    rep         \* observation of the latest stage3_ip_reputation call

vars == <<stats, results, pc, proxies, report, last, calls, tcpPassed, now, lastCheck, rep>>

-----------------------------------------------------------------------------
(* Bounds of the model *)

MaxCalls == 2

MaxClock == 7200

-----------------------------------------------------------------------------
(* config.py *)

ENABLE_STAGE3_IP_REPUTATION == TRUE

BLACKLIST_CACHE_TIME == 3600

-----------------------------------------------------------------------------
(* str methods used by the parser *)

UpperChars == <<"A","B","C","D","E","F","G","H","I","J","K","L","M",
                "N","O","P","Q","R","S","T","U","V","W","X","Y","Z">>

LowerChars == <<"a","b","c","d","e","f","g","h","i","j","k","l","m",
                "n","o","p","q","r","s","t","u","v","w","x","y","z">>

DigitChars == <<"0","1","2","3","4","5","6","7","8","9">>

LowerChar(c) ==
    IF \E i \in 1..Len(UpperChars) : UpperChars[i] = c
    THEN LowerChars[CHOOSE i \in 1..Len(UpperChars) : UpperChars[i] = c]
    ELSE c

\* str.lower()
Lower(s) == [i \in 1..Len(s) |-> LowerChar(s[i])]

\* str.startswith(p)
StartsWith(s, p) == Len(p) <= Len(s) /\ SubSeq(s, 1, Len(p)) = p

\* c in s
Contains(s, c) == \E i \in 1..Len(s) : s[i] = c

\* index of the first / last occurrence of c in s, 0 when there is none
FirstIndex(s, c) ==
    IF Contains(s, c)
    THEN CHOOSE i \in 1..Len(s) : s[i] = c /\ \A j \in 1..(i-1) : s[j] # c
    ELSE 0

LastIndex(s, c) ==
    IF Contains(s, c)
    THEN CHOOSE i \in 1..Len(s) : s[i] = c /\ \A j \in (i+1)..Len(s) : s[j] # c
    ELSE 0

\* s.split(c)[0]
SplitHead(s, c) == IF Contains(s, c) THEN SubSeq(s, 1, FirstIndex(s, c) - 1) ELSE s

\* s.split(c)[1], for s that contains c
SplitSecond(s, c) == SplitHead(SubSeq(s, FirstIndex(s, c) + 1, Len(s)), c)

\* s.rsplit(c, 1), for s that contains c
RSplitOnce(s, c) ==
    <<SubSeq(s, 1, LastIndex(s, c) - 1), SubSeq(s, LastIndex(s, c) + 1, Len(s))>>

IsDigit(c) == \E i \in 1..Len(DigitChars) : DigitChars[i] = c

DigitValue(c) == (CHOOSE i \in 1..Len(DigitChars) : DigitChars[i] = c) - 1

\* str.strip() of blanks
RECURSIVE Strip(_)
Strip(s) ==
    IF s = <<>> THEN s
    ELSE IF Head(s) = " " THEN Strip(Tail(s))
    ELSE IF s[Len(s)] = " " THEN Strip(SubSeq(s, 1, Len(s) - 1))
    ELSE s

RECURSIVE DigitsValue(_, _)
DigitsValue(s, acc) ==
    IF s = <<>> THEN acc
    ELSE IF Head(s) = "_" THEN DigitsValue(Tail(s), acc)
    ELSE DigitsValue(Tail(s), 10 * acc + DigitValue(Head(s)))

\* int(text): blanks stripped, an optional sign, decimal digits that single
\* underscores may separate; anything else is a ValueError (ok = FALSE).
ParseInt(text) ==
    LET s    == Strip(text)
        neg  == s # <<>> /\ Head(s) = "-"
        body == IF s # <<>> /\ Head(s) \in {"+", "-"} THEN Tail(s) ELSE s
        good == /\ body # <<>>
                /\ \A i \in 1..Len(body) : IsDigit(body[i]) \/ body[i] = "_"
                /\ IsDigit(body[1]) /\ IsDigit(body[Len(body)])
                /\ \A i \in 1..(Len(body) - 1) : ~(body[i] = "_" /\ body[i+1] = "_")
    IN  IF good
        THEN [ok |-> TRUE, value |-> IF neg THEN 0 - DigitsValue(body, 0) ELSE DigitsValue(body, 0)]
        ELSE [ok |-> FALSE, value |-> 0]

-----------------------------------------------------------------------------
(* The parser *)

vless  == <<"v","l","e","s","s",":","/","/">>
vmess  == <<"v","m","e","s","s",":","/","/">>
trojan == <<"t","r","o","j","a","n",":","/","/">>
ss     == <<"s","s",":","/","/">>

detect_protocol(uri) ==
    LET lower == Lower(uri)
    IN  IF StartsWith(lower, vless) THEN "VLESS"
        ELSE IF StartsWith(lower, vmess) THEN "VMess"
        ELSE IF StartsWith(lower, trojan) THEN "Trojan"
        ELSE IF StartsWith(lower, ss) THEN "ShadowSocks"
        ELSE "Unknown"

\* the tuple (None, None)
NoneNone == [isNone |-> TRUE, host |-> <<>>, port |-> 0]

extract_host_port(uri) ==
    IF Contains(uri, "@")
    THEN LET host_port == SplitHead(SplitSecond(uri, "@"), "?")
         IN  IF Contains(host_port, ":")
             THEN LET parts == RSplitOnce(host_port, ":")
                      n     == ParseInt(parts[2])
                  IN  IF n.ok
                      THEN [isNone |-> FALSE, host |-> parts[1], port |-> n.value]
                      ELSE NoneNone   \* ValueError swallowed by the bare except
             ELSE NoneNone
    ELSE NoneNone

-----------------------------------------------------------------------------
(* The environment: what the socket module can answer *)

\* sock.connect((host, port)): the host does not resolve (gaierror), the
\* connection is refused or times out, or it is established.
ConnectOutcomes == {"connected", "refused", "unresolved"}

\* the addresses stage3_ip_reputation is asked about, as octets
IPs == { <<203, 0, 113, 5>>, <<198, 51, 100, 7>> }

\* the A record of a proxy host
AddressOf(host) == <<203, 0, 113, 5>>

\* socket.gethostbyname(host) in validate_proxy: the address, or an exception
Unresolved == [ok |-> FALSE, ip |-> <<>>]

Resolutions(host) == {Unresolved, [ok |-> TRUE, ip |-> AddressOf(host)]}

\* socket.gethostbyname(query) in stage3_ip_reputation: the name resolves,
\* socket.gaierror, or any other exception (KeyboardInterrupt, UnicodeError, ...)
LookupOutcomes == {"resolved", "gaierror", "error"}

-----------------------------------------------------------------------------
(* The stages *)

\* "True", "False", or the exception that leaves the method.  connect()
\* converts the address first: a port that does not fit a C int is refused
\* at once, then the host is resolved (gaierror is an OSError, caught), then
\* a port outside 0..65535 raises OverflowError, which the except clause
\* (socket.timeout, socket.error, OSError) does not catch.
stage1_tcp_check(host, port, conn) ==
    IF port > 2147483647 \/ port < -2147483647 - 1 THEN "OverflowError"
    ELSE IF conn = "unresolved" THEN "False"
    ELSE IF port < 0 \/ port > 65535 THEN "OverflowError"
    ELSE IF conn = "connected" THEN "True"
    ELSE "False"

\* stage2_xray_test: the body is `pass`, it returns None
stage2_xray_test(proxy_config) == "None"

dnsbl_hosts == <<"zen.spamhaus.org", "bl.spamcop.net", "dnsbl.sorbs.net">>

EmptyMap == [k \in {} |-> TRUE]

\* '.'.join(reversed(ip_address.split('.')))
reversed_ip(ip_address) == [i \in 1..Len(ip_address) |-> ip_address[Len(ip_address) + 1 - i]]

\* the for loop over dnsbl_hosts, from its i-th round on.  acc carries the
\* reputation dict and what the loop has asked and heard so far.
RECURSIVE DnsblLoop(_, _, _, _)
DnsblLoop(i, rev, looks, acc) ==
    IF i > Len(dnsbl_hosts) THEN acc
    ELSE LET dnsbl  == dnsbl_hosts[i]
             asked  == [acc EXCEPT !.issued  = Append(@, <<rev, dnsbl>>),
                                   !.answers = Append(@, looks[i])]
         IN  CASE looks[i] = "resolved" ->
                    DnsblLoop(i + 1, rev, looks,
                        [asked EXCEPT !.reputation =
                            [blacklisted |-> TRUE, hasChecks |-> TRUE,
                             checks |-> (dnsbl :> "LISTED") @@ @.checks]])
               [] looks[i] = "gaierror" ->
                    DnsblLoop(i + 1, rev, looks,
                        [asked EXCEPT !.reputation.checks = (dnsbl :> "OK") @@ @])
               [] OTHER -> [asked EXCEPT !.raised = TRUE]

stage3_ip_reputation(ip_address, looks) ==
    IF ~ENABLE_STAGE3_IP_REPUTATION
    THEN [raised |-> FALSE, issued |-> <<>>, answers |-> <<>>,
          reputation |-> [blacklisted |-> FALSE, hasChecks |-> FALSE, checks |-> EmptyMap]]
    ELSE DnsblLoop(1, reversed_ip(ip_address), looks,
            [raised |-> FALSE, issued |-> <<>>, answers |-> <<>>,
             reputation |-> [blacklisted |-> FALSE, hasChecks |-> TRUE, checks |-> EmptyMap]])

-----------------------------------------------------------------------------
(* validate_proxy *)

\* self.stats['total'] += 1
CountTotal(st) == [st EXCEPT !.total = @ + 1]

CountTcpLive_Forgotten(st) == st

\* self.stats['tcp_live'] += 1
CountTcpLive(st) == [st EXCEPT !.tcp_live = @ + 1]

NoRecord == [uri |-> <<>>, protocol |-> "Unknown", valid |-> FALSE,
             stages |-> EmptyMap, addr |-> NoneNone]

NoStage3 == [raised |-> FALSE, issued |-> <<>>, answers |-> <<>>,
             reputation |-> [blacklisted |-> FALSE, hasChecks |-> FALSE, checks |-> EmptyMap]]

\* One call of validate_proxy on stats st, with the answers the network
\* gives: conn to connect(), res to gethostbyname(host), looks to the DNSBL
\* lookups.  It yields the new stats, whether an exception left the method,
\* the record returned, the calls made and what stage 1 and stage 3 did.
validate_proxy(st, uri, conn, res, looks) ==
    LET st1    == CountTotal(st)
        result == [uri |-> uri, protocol |-> detect_protocol(uri), valid |-> FALSE,
                   stages |-> EmptyMap, addr |-> NoneNone]
        hp     == extract_host_port(uri)
        early  == [stats |-> st1, raised |-> FALSE, record |-> result, hp |-> hp,
                   invoked |-> {}, tcp |-> "not run", resolved |-> FALSE,
                   stage3 |-> NoStage3]
    IN  IF hp.isNone \/ hp.host = <<>> \/ hp.port = 0
        THEN early
        ELSE LET tcp == stage1_tcp_check(hp.host, hp.port, conn)
                 s3  == stage3_ip_reputation(res.ip, looks)
                 r1  == [result EXCEPT !.stages = ("tcp" :> TRUE) @@ @,
                                       !.addr = hp]
                 r2  == IF res.ok /\ ~s3.raised
                        THEN [r1 EXCEPT !.stages = ("ip_reputation" :> s3.reputation) @@ @]
                        ELSE r1     \* the bare except: pass
             IN  CASE tcp = "OverflowError" ->
                        [early EXCEPT !.raised = TRUE, !.record = NoRecord,
                                      !.invoked = {"stage1_tcp_check"}, !.tcp = tcp]
                   [] tcp = "False" ->
                        [early EXCEPT !.invoked = {"stage1_tcp_check"}, !.tcp = tcp]
                   [] OTHER ->
                        [stats |-> CountTcpLive(st1), raised |-> FALSE,
                         record |-> [r2 EXCEPT !.valid = TRUE], hp |-> hp,
                         invoked |-> {"stage1_tcp_check", "gethostbyname"}
                                     \cup (IF res.ok THEN {"stage3_ip_reputation"} ELSE {}),
                         tcp |-> tcp, resolved |-> res.ok,
                         stage3 |-> IF res.ok THEN s3 ELSE NoStage3]
-----------------------------------------------------------------------------------------------------------------------------------------------------
(* The callers' inputs and the network's answers *)

\* the proxy lists handed to run_validation are drawn from these URIs
RunInputs ==
    {
        <<"v","l","e","s","s",":","/","/","u","@","h",":","4","4","3","?","s","=","t","#","A">>,  \* vless://u@h:443?s=t#A  (well formed)
        <<"s","s",":","/","/","h",":","4","4","3">>,  \* ss://h:443  (no '@': does not parse)
        <<"v","l","e","s","s",":","/","/","u","@","h",":","7","0","0","0","0">>   \* vless://u@h:70000  (port above 65535)
    }

\* single calls of validate_proxy are explored over this wider family:
\* scheme, user part, host, port part and tail in every combination
Schemes ==
    { <<"v","l","e","s","s",":","/","/">>,   \* vless://
      <<"V","M","e","s","s",":","/","/">>,   \* VMess://
      <<"t","r","o","j","a","n",":","/","/">>,   \* trojan://
      <<"s","s",":","/","/">>,   \* ss://
      <<"h","t","t","p",":","/","/">>   \* http://
    }

UserParts ==
    { <<"u","@">>,   \* u@
      <<>>   \* (empty)
    }

HostParts ==
    { <<"h">>,   \* h
      <<>>   \* (empty)
    }

PortParts ==
    { <<":","4","4","3">>,   \* :443
      <<":","6","5","5","3","5">>,   \* :65535
      <<":","0">>,   \* :0
      <<":","-","1">>,   \* :-1
      <<":","7","0","0","0","0">>,   \* :70000
      <<":","4","x">>,   \* :4x
      <<>>   \* (empty)
    }

TailParts ==
    { <<>>,   \* (empty)
      <<"?","s","=","t">>,   \* ?s=t
      <<"#","A">>,   \* #A
      <<"?","s","=","t","#","A">>   \* ?s=t#A
    }

URIs == { s \o u \o h \o p \o t :
            s \in Schemes, u \in UserParts, h \in HostParts, p \in PortParts, t \in TailParts }

\* the answers to the DNSBL lookups of one stage3_ip_reputation call, in the
\* order asked: one per service, or fewer when a lookup ends the loop with an
\* exception other than gaierror
Lookups ==
    { l \in UNION { [1..n -> LookupOutcomes] : n \in 1..Len(dnsbl_hosts) } :
        /\ \A i \in 1..(Len(l) - 1) : l[i] # "error"
        /\ Len(l) = Len(dnsbl_hosts) \/ l[Len(l)] = "error" }

\* the answers of the network to one validate_proxy call, in the order
\* asked: connect(), gethostbyname(host), the DNSBL lookups.  Answers are
\* drawn as far as they can be asked for: validate_proxy asks nothing after
\* a connect() that failed (all the rest is inside `if self.stage1_tcp_check`)
\* and stage 3 is not entered when the host does not resolve.
Networks(host) ==
    { [conn |-> c, res |-> Unresolved, looks |-> <<>>] : c \in ConnectOutcomes }
    \cup { [conn |-> "connected", res |-> r, looks |-> l] :
             r \in Resolutions(host) \ {Unresolved}, l \in Lookups }

-----------------------------------------------------------------------------
(* The validator object and its callers *)

NoCall == [called |-> FALSE, uri |-> <<>>, raised |-> FALSE, record |-> NoRecord,
           hp |-> NoneNone, invoked |-> {}, tcp |-> "not run", resolved |-> FALSE]

NoRep == [called |-> FALSE, ip |-> <<>>, at |-> 0, prevAt |-> -1, raised |-> FALSE,
          issued |-> <<>>, answers |-> <<>>,
          reputation |-> [blacklisted |-> FALSE, hasChecks |-> FALSE, checks |-> EmptyMap]]

\* ProxyValidator.__init__, before any call
Init ==
    /\ stats = [total |-> 0, tcp_live |-> 0, xray_live |-> 0, speed_tested |-> 0, stable |-> 0]
    /\ results = <<>>
    /\ pc = "idle"
    /\ proxies = <<>>
    /\ report = [written |-> FALSE, records |-> <<>>, inputs |-> <<>>]
    /\ last = NoCall
    /\ calls = 0
    /\ tcpPassed = 0
    /\ now = 0
    /\ lastCheck = [a \in IPs |-> -1]
    /\ rep = NoRep

\* what one stage3_ip_reputation call on ip, with outcome s3, leaves to observe
ObserveStage3(ip, s3) ==
    /\ rep' = [called |-> TRUE, ip |-> ip, at |-> now, prevAt |-> lastCheck[ip],
               raised |-> s3.raised, issued |-> s3.issued, answers |-> s3.answers,
               reputation |-> s3.reputation]
    /\ lastCheck' = [lastCheck EXCEPT ![ip] = now]

\* the effects of one validate_proxy call with outcome v, on everything but
\* self.results and the caller's position
Validated(uri, net, v) ==
    /\ stats' = v.stats
    /\ last' = [called |-> TRUE, uri |-> uri, raised |-> v.raised, record |-> v.record,
                hp |-> v.hp, invoked |-> v.invoked, tcp |-> v.tcp, resolved |-> v.resolved]
    /\ calls' = calls + 1
    /\ tcpPassed' = IF net.conn = "connected" /\ "stage1_tcp_check" \in v.invoked /\ ~v.raised
                    THEN tcpPassed + 1 ELSE tcpPassed
    /\ IF "stage3_ip_reputation" \in v.invoked
       THEN ObserveStage3(net.res.ip, v.stage3)
       ELSE UNCHANGED <<rep, lastCheck>>

\* a caller calls validator.validate_proxy(uri) itself
CallValidateProxy ==
    /\ pc \in {"idle", "done"}
    /\ calls < MaxCalls
    /\ \E uri \in RunInputs :
         \E net \in Networks(extract_host_port(uri).host) :
            Validated(uri, net, validate_proxy(stats, uri, net.conn, net.res, net.looks))
    /\ UNCHANGED <<results, pc, proxies, report, now>>

\* run_validation(proxies) is entered
RunStart ==
    /\ pc \in {"idle", "done"}
    /\ calls < MaxCalls
    /\ pc' = "running"
    /\ proxies' = <<>>
    /\ UNCHANGED <<stats, results, report, last, calls, tcpPassed, now, lastCheck, rep>>

\* one round of `for proxy in proxies`: the next URI of the list is validated.
\* An exception out of validate_proxy leaves run_validation too.
RunStep ==
    /\ pc = "running"
    /\ calls < MaxCalls
    /\ \E uri \in RunInputs :
         \E net \in Networks(extract_host_port(uri).host) :
            LET v == validate_proxy(stats, uri, net.conn, net.res, net.looks)
            IN  /\ Validated(uri, net, v)
                /\ proxies' = Append(proxies, uri)
                /\ pc' = IF v.raised THEN "raised" ELSE "running"
                /\ results' = IF ~v.raised /\ v.record.valid
                              THEN Append(results, v.record)
                              ELSE results
    /\ UNCHANGED <<report, now>>

\* the list is exhausted: the closing log line and print_stats
RunFinish ==
    /\ pc = "running"
    /\ pc' = "done"
    /\ UNCHANGED <<stats, results, proxies, report, last, calls, tcpPassed, now, lastCheck, rep>>

\* main() after a finished run: `if validator.results: validator.save_results()`,
\* which is json.dump(self.results, f)
SaveResults ==
    /\ pc = "done"
    /\ results # <<>>
    /\ report' = [written |-> TRUE, records |-> results, inputs |-> proxies]
    /\ UNCHANGED <<stats, results, pc, proxies, last, calls, tcpPassed, now, lastCheck, rep>>

Next == CallValidateProxy \/ RunStart \/ RunStep \/ RunFinish \/ SaveResults

\* one validator object: runs, single calls and saves in any order
Spec == Init /\ [][Next]_vars

\* the first validate_proxy call on a fresh validator, on any URI of the family
CallOnce ==
    /\ pc = "idle"
    /\ calls = 0
    /\ \E uri \in URIs :
         \E net \in Networks(extract_host_port(uri).host) :
            Validated(uri, net, validate_proxy(stats, uri, net.conn, net.res, net.looks))
    /\ UNCHANGED <<results, pc, proxies, report, now>>

NextCall == CallOnce

SpecCall == Init /\ [][NextCall]_vars

\* a caller calls validator.stage3_ip_reputation(ip) itself
CallStage3 ==
    /\ \E ip \in IPs, looks \in Lookups : ObserveStage3(ip, stage3_ip_reputation(ip, looks))
    /\ UNCHANGED <<stats, results, pc, proxies, report, last, calls, tcpPassed, now>>

\* time passes between two calls
Tick ==
    /\ \E d \in {BLACKLIST_CACHE_TIME \div 2, BLACKLIST_CACHE_TIME} :
          /\ now + d <= MaxClock
          /\ now' = now + d
    /\ UNCHANGED <<stats, results, pc, proxies, report, last, calls, tcpPassed, lastCheck, rep>>

NextRep == CallStage3 \/ Tick

\* the reputation stage alone, called again and again as time passes
SpecRep == Init /\ [][NextRep]_vars

-----------------------------------------------------------------------------
(* The vocabulary of the properties *)

\* the stages that come after the TCP probe, and the methods that run them
LaterStages == {"xray", "ip_reputation", "speed", "stability", "route_quality", "tls"}

LaterStageCalls == {"stage2_xray_test", "gethostbyname", "stage3_ip_reputation",
                    "stage4_speed_test", "stage5_stability_test",
                    "stage6_route_quality", "stage7_tls_validation"}

\* the stages that come after the reputation check
StagesAfterReputation == {"speed", "stability", "route_quality", "tls"}

\* the status a record carries for a stage: result['stages'] holds True for
\* tcp and the reputation dict for ip_reputation, and nothing else
StageStatus(record, stage) ==
    IF stage \notin DOMAIN record.stages THEN "not recorded"
    ELSE IF stage = "ip_reputation"
         THEN (IF record.stages[stage].blacklisted THEN "fail" ELSE "pass")
         ELSE "pass"

\* the text between the first '@' and the first '?' or '#'
Authority(uri) == SplitHead(SplitHead(SubSeq(uri, FirstIndex(uri, "@") + 1, Len(uri)), "?"), "#")

HasHostAndPort(uri) == Contains(uri, "@") /\ Contains(Authority(uri), ":")

PortNumber(uri) == ParseInt(RSplitOnce(Authority(uri), ":")[2])

HostText(uri) == RSplitOnce(Authority(uri), ":")[1]

\* no '@', a port that is no number, or a scheme that is none of the four
Malformed(uri) ==
    \/ ~Contains(uri, "@")
    \/ HasHostAndPort(uri) /\ ~PortNumber(uri).ok
    \/ detect_protocol(uri) = "Unknown"

PortOutOfRange(uri) ==
    HasHostAndPort(uri) /\ PortNumber(uri).ok /\ PortNumber(uri).value \notin 1..65535

\* a host and a port in range, followed directly by '#'
FragmentAfterPort(uri) ==
    /\ HasHostAndPort(uri) /\ HostText(uri) # <<>>
    /\ PortNumber(uri).ok /\ PortNumber(uri).value \in 1..65535
    /\ LET rest == SubSeq(uri, FirstIndex(uri, "@") + 1 + Len(Authority(uri)), Len(uri))
       IN  rest # <<>> /\ Head(rest) = "#"

-----------------------------------------------------------------------------
(* The properties *)

\* C1: a malformed URI (no '@', non-numeric port, unknown scheme) parses to
\* host=None and validate_proxy ends with valid=false without running the
\* TCP probe or any later stage: nothing is recorded, tcp_live stays put.
C1_MalformedNeverProbed ==
    (last.called /\ Malformed(last.uri)) =>
        /\ last.hp.isNone
        /\ ~last.raised
        /\ ~last.record.valid
        /\ last.invoked = {}
        /\ DOMAIN last.record.stages = {}
        /\ stats.tcp_live = 0

\* C2: when the TCP probe fails the record is invalid, no later stage is run
\* and every later stage is recorded as skipped-shortcircuit.
C2_TcpFailureShortCircuits ==
    (last.called /\ last.tcp = "False") =>
        /\ ~last.record.valid
        /\ last.invoked \cap LaterStageCalls = {}
        /\ \A s \in LaterStages : StageStatus(last.record, s) = "skipped-shortcircuit"

\* C3: a record is valid only if the TCP probe passed and the protocol test
\* (stage2_xray_test) was run for the proxy and passed.
C3_ValidNeedsProtocolTest ==
    (last.called /\ ~last.raised /\ last.record.valid) =>
        /\ last.tcp = "True"
        /\ "stage2_xray_test" \in last.invoked
        /\ StageStatus(last.record, "xray") = "pass"

\* C4: when the reputation stage reports blacklisted, or the host does not
\* resolve for it, the record is invalid, the stages after it are recorded
\* as skipped-shortcircuit, and the proxy is not in the valid result list.
C4_FailedStageInvalidates ==
    /\ (last.called /\ ~last.raised /\ last.tcp = "True"
          /\ (~last.resolved \/ StageStatus(last.record, "ip_reputation") = "fail")) =>
            /\ ~last.record.valid
            /\ \A s \in StagesAfterReputation :
                  StageStatus(last.record, s) = "skipped-shortcircuit"
    /\ \A i \in 1..Len(results) : StageStatus(results[i], "ip_reputation") # "fail"

\* C5: the report written after a finished run holds a record for every
\* input URI of the run, also for those that did not parse or failed TCP.
C5_ReportCoversEveryInput ==
    report.written =>
        \A i \in 1..Len(report.inputs) :
            \E j \in 1..Len(report.records) : report.records[j].uri = report.inputs[i]

\* C6: a reputation check of an IP that was checked less than
\* BLACKLIST_CACHE_TIME ago issues no DNS query (it is served from the
\* cache); a check with no earlier one inside the TTL issues fresh queries.
C6_RepeatWithinTTLServedFromCache ==
    rep.called =>
        IF rep.prevAt >= 0 /\ rep.at - rep.prevAt < BLACKLIST_CACHE_TIME
        THEN rep.issued = <<>>
        ELSE rep.issued # <<>>

\* C7: no exception leaves validate_proxy, whatever the URI and the answers
\* of the network, so run_validation is never left by one either.
C7_NothingRaisesPastOrchestrator ==
    ~last.raised /\ pc # "raised"

\* C8: a port that is 0, negative or above 65535 makes the parser yield
\* (None, None), so the TCP probe is not attempted; a valid host:port
\* followed directly by '#fragment' yields that host and port.
C8_PortRangeAndFragment ==
    last.called =>
        /\ PortOutOfRange(last.uri) =>
              last.hp = NoneNone /\ "stage1_tcp_check" \notin last.invoked
        /\ FragmentAfterPort(last.uri) =>
              last.hp = [isNone |-> FALSE, host |-> HostText(last.uri),
                         port |-> PortNumber(last.uri).value]

\* C9: the reputation stage always returns; blacklisted is the OR over all
\* services of `the query name resolved`, and every service has exactly one
\* entry, LISTED when its name resolved and OK otherwise.
C9_BlacklistedIsOrOverServices ==
    rep.called =>
        /\ ~rep.raised
        /\ Len(rep.answers) = Len(dnsbl_hosts)
        /\ DOMAIN rep.reputation.checks = {dnsbl_hosts[i] : i \in 1..Len(dnsbl_hosts)}
        /\ rep.reputation.blacklisted = (\E i \in 1..Len(dnsbl_hosts) : rep.answers[i] = "resolved")
        /\ \A i \in 1..Len(dnsbl_hosts) :
              rep.reputation.checks[dnsbl_hosts[i]] =
                  (IF rep.answers[i] = "resolved" THEN "LISTED" ELSE "OK")

\* C10: total counts the validate_proxy calls, tcp_live counts the calls
\* whose TCP probe passed, len(results) <= tcp_live <= total always, and a
\* call whose URI does not parse or whose probe does not pass adds one to
\* total and leaves every other counter and the results alone.
C10_CountersOncePerMilestone ==
    /\ [](/\ stats.total = calls
          /\ stats.tcp_live = tcpPassed
          /\ Len(results) <= stats.tcp_live
          /\ stats.tcp_live <= stats.total)
    /\ [][(calls' = calls + 1 /\ last'.tcp # "True") =>
             /\ stats' = [stats EXCEPT !.total = @ + 1]
             /\ results' = results]_vars

\* a run in which one proxy passed the probe and was kept, and the next
\* call did not pass it
C10_Witness ==
    /\ calls = 2 /\ tcpPassed = 1 /\ Len(results) = 1
    /\ last.called /\ last.tcp # "True"

====
